---- MODULE Spec2Model ----
(***************************************************************************)
(* Model of the MRI pre-processing DAG definitions of                      *)
(* data-factory-airflow-dags:                                              *)
(*   - mri_pipelines/pre_process_dicom.py  (pre_process_dicom_dag, the     *)
(*     parameterized DAG builder),                                         *)
(*   - mri_pre_process_dicom.py            (the hard-coded DAG),           *)
(*   - preprocessing_steps/copy_to_local.py (copy_to_local_step).          *)
(* The DAG definition is executed statement by statement (one action per   *)
(* operator instantiation); the resulting task graph is then run by the    *)
(* orchestration engine (task instances start when all their direct        *)
(* upstream tasks succeeded and their pool has a free slot).               *)
(***************************************************************************)
EXTENDS Integers, Sequences, FiniteSets, TLC

VARIABLES
    script,            \* which definition file is executed: "param", "hard", "step"
    flags,             \* copy_dicom_to_local, dicom_organizer, mpm_maps, neuro_morphometric_atlas
    pc,                \* position in the DAG definition script
    dag,               \* task ids registered in the DAG
    op,                \* task id -> operator attributes
    upstream_task_ids, \* task id -> direct upstream task ids (set_upstream)
    upstream,          \* local variable `upstream` (a task, named by its id)
    upstream_id,       \* local variable `upstream_id`
    upstream_step,     \* argument of copy_to_local_step: Step(task, task_id, priority_weight)
    returned,          \* Step returned by copy_to_local_step
    params,            \* params of the bash template (min_free_space, in hundredths)
    max_active_runs,   \* DAG(max_active_runs=...)
    dag_runs,          \* run ids triggered so far
    ti,                \* run -> task id -> task instance state
    try_number,        \* run -> task id -> attempts started by a task instance that has
                       \* not finished yet or has failed (0 once it succeeded or skipped)
    triggered,         \* run -> dag ids triggered by the run
    xcom,              \* run -> task id -> keys the task pushed for its children
    copied,            \* run -> rsync has written files
    shell,             \* run -> variables and output of the last copy_to_local command
    written,           \* run -> paths the run's copy commands wrote to
    removed,           \* run -> paths the run's cleanup command removed
    configuration,     \* the process-wide configuration store (section 'mri')
    scope,             \* names bound in the scope enclosing the argument builders
    call               \* last argument-builder call and its result

dagvars == <<script, flags, pc, dag, op, upstream_task_ids, upstream, upstream_id,
             upstream_step, returned, params, max_active_runs>>
runvars == <<dag_runs, ti, try_number, triggered, xcom, copied, shell, written, removed>>
callvars == <<configuration, scope, call>>
vars == <<dagvars, runvars, callvars>>

----------------------------------------------------------------------------
(* Bounds of the model *)

\* number of DAG runs that may be active together in the concurrent specification
MaxActiveRuns == 2
\* slots of each pool of the engine
PoolSlots == 1

----------------------------------------------------------------------------
(* Names *)

None == "None"

TaskIds == {"check_free_space", "copy_dicom_to_local", "prepare_pipeline",
            "dicom_organizer_pipeline", "extract_dicom_info",
            "dicom_to_nifti_pipeline", "cleanup_local_dicom", "extract_nifti_info",
            "notify_success", "mpm_maps_pipeline", "extract_nifti_mpm_info",
            "neuro_morphometric_atlas_pipeline", "extract_nifti_atlas_info",
            "copy_to_local", "upstream_task"}

Pools == {"remote_file_copy", "io_intensive", "image_preprocessing"}

RunIds == 1..MaxActiveRuns

\* default_args of both DAG scripts: 'retries': 1, 'retry_delay': timedelta(seconds=120)
default_args == [retries |-> 1, retry_delay |-> 120]

\* attributes of an operator that the scripts leave at their defaults
BaseOperator == [class |-> "BaseOperator",
                 pool |-> None,
                 parent_task |-> None,
                 priority_weight |-> 1,
                 retries |-> default_args.retries,
                 retry_delay |-> default_args.retry_delay,
                 bash_command |-> None,
                 params |-> <<>>,
                 python_callable |-> None,
                 spm_arguments_callable |-> None,
                 on_failure_trigger_dag_id |-> None,
                 on_skip_trigger_dag_id |-> None,
                 trigger_dag_id |-> None,
                 pipeline_trigger |-> None]

\* an operator instantiated with keyword arguments kw
Operator(kw) == kw @@ BaseOperator

NoUpstream == [t \in TaskIds |-> {}]

\* Operator(..., dag=dag): registers the task
AddTask(id, kw) ==
    /\ dag' = dag \cup {id}
    /\ op' = (id :> Operator(kw)) @@ op

\* t.set_upstream(u), applied to the upstream lists f
SetUpstream(f, t, u) == [f EXCEPT ![t] = @ \cup {u}]

----------------------------------------------------------------------------
(* mri_pipelines/pre_process_dicom.py: pre_process_dicom_dag *)

\* values of the configuration store, section 'mri' (paths are lists of components)
Configuration(protocols) ==
    [PIPELINES_PATH |-> <<"pipelines">>,
     PROTOCOLS_FILE |-> protocols,
     DICOM_LOCAL_FOLDER |-> <<"local", "dicom">>,
     NIFTI_LOCAL_FOLDER |-> <<"local", "nifti">>,
     NIFTI_SERVER_FOLDER |-> <<"server", "nifti">>,
     NEURO_MORPHOMETRIC_ATLAS_LOCAL_FOLDER |-> <<"local", "atlas">>,
     NEURO_MORPHOMETRIC_ATLAS_SERVER_FOLDER |-> <<"server", "atlas">>,
     MPM_MAPS_LOCAL_FOLDER |-> <<"local", "mpm">>,
     MPM_MAPS_SERVER_FOLDER |-> <<"server", "mpm">>]

\* the parameters of pre_process_dicom_dag that the argument builders read, bound by
\* the call (the caller passes the folders of the configuration store)
P_parameters ==
    [misc_library_path |-> configuration.PIPELINES_PATH \o <<"..", "Miscellaneous&Others">>,
     dicom_local_folder |-> configuration.DICOM_LOCAL_FOLDER,
     dicom_organizer_local_folder |-> configuration.DICOM_LOCAL_FOLDER \o <<"organized">>,
     dicom_organizer_data_structure |-> <<"PatientID:StudyID:ProtocolName:SeriesNumber">>,
     dicom_to_nifti_local_folder |-> configuration.NIFTI_LOCAL_FOLDER,
     dicom_to_nifti_server_folder |-> configuration.NIFTI_SERVER_FOLDER,
     mpm_maps_local_folder |-> configuration.MPM_MAPS_LOCAL_FOLDER,
     mpm_maps_server_folder |-> configuration.MPM_MAPS_SERVER_FOLDER,
     neuro_morphometric_atlas_local_folder |->
         configuration.NEURO_MORPHOMETRIC_ATLAS_LOCAL_FOLDER,
     neuro_morphometric_atlas_server_folder |->
         configuration.NEURO_MORPHOMETRIC_ATLAS_SERVER_FOLDER]

\* the call of pre_process_dicom_dag binds its parameters
P_call ==
    /\ script = "param" /\ pc = "start"
    /\ scope' = P_parameters
    /\ pc' = "check_free_space"
    /\ UNCHANGED <<script, flags, dag, op, upstream_task_ids, upstream, upstream_id,
                   upstream_step, returned, params, max_active_runs, runvars,
                   configuration, call>>

\* (retries=24 in place of retries=24 * 7)
P_check_free_space_kw_one_day ==
    [class |-> "FreeSpaceSensor",
     retry_delay |-> 3600,
     retries |-> 24,
     pool |-> "remote_file_copy"]

P_check_free_space_kw ==
    [class |-> "FreeSpaceSensor",
     retry_delay |-> 3600,
     retries |-> 24 * 7,
     pool |-> "remote_file_copy"]

P_check_free_space ==
    /\ script = "param" /\ pc = "check_free_space"
    /\ AddTask("check_free_space", P_check_free_space_kw)
    /\ upstream' = "check_free_space"
    /\ upstream_id' = "check_free_space"
    /\ pc' = "copy_dicom_to_local"
    /\ UNCHANGED <<script, flags, upstream_task_ids, upstream_step, returned, params,
                   max_active_runs, runvars, callvars>>

P_copy_dicom_to_local_kw ==
    [class |-> "BashOperator",
     bash_command |-> "copy_dicom_to_local_cmd",
     params |-> [local_output_folder |-> scope.dicom_local_folder],
     pool |-> "remote_file_copy",
     priority_weight |-> 10]

P_copy_dicom_to_local ==
    /\ script = "param" /\ pc = "copy_dicom_to_local"
    /\ IF flags.copy_dicom_to_local
       THEN /\ AddTask("copy_dicom_to_local", P_copy_dicom_to_local_kw)
            /\ upstream_task_ids' = SetUpstream(upstream_task_ids, "copy_dicom_to_local", upstream)
            /\ upstream' = "copy_dicom_to_local"
            /\ upstream_id' = "copy_dicom_to_local"
       ELSE UNCHANGED <<dag, op, upstream_task_ids, upstream, upstream_id>>
    /\ pc' = "prepare_pipeline"
    /\ UNCHANGED <<script, flags, upstream_step, returned, params,
                   max_active_runs, runvars, callvars>>

P_prepare_pipeline_kw ==
    [class |-> "PreparePipelineOperator",
     priority_weight |-> 12]

P_prepare_pipeline ==
    /\ script = "param" /\ pc = "prepare_pipeline"
    /\ AddTask("prepare_pipeline", P_prepare_pipeline_kw)
    /\ upstream_task_ids' = SetUpstream(upstream_task_ids, "prepare_pipeline", upstream)
    /\ upstream' = "prepare_pipeline"
    /\ upstream_id' = "prepare_pipeline"
    /\ pc' = "dicom_organizer"
    /\ UNCHANGED <<script, flags, upstream_step, returned, params,
                   max_active_runs, runvars, callvars>>

P_dicom_organizer_pipeline_kw ==
    [class |-> "SpmPipelineOperator",
     spm_arguments_callable |-> "dicom_organizer_arguments_fn",
     pool |-> "io_intensive",
     parent_task |-> upstream_id,
     priority_weight |-> 20,
     on_skip_trigger_dag_id |-> "mri_notify_skipped_processing",
     on_failure_trigger_dag_id |-> "mri_notify_failed_processing"]

P_dicom_organizer ==
    /\ script = "param" /\ pc = "dicom_organizer"
    /\ IF flags.dicom_organizer
       THEN /\ AddTask("dicom_organizer_pipeline", P_dicom_organizer_pipeline_kw)
            /\ upstream_task_ids' =
                   SetUpstream(upstream_task_ids, "dicom_organizer_pipeline", upstream)
            /\ upstream' = "dicom_organizer_pipeline"
            /\ upstream_id' = "dicom_organizer_pipeline"
       ELSE UNCHANGED <<dag, op, upstream_task_ids, upstream, upstream_id>>
    /\ pc' = "extract_dicom_info"
    /\ UNCHANGED <<script, flags, upstream_step, returned, params,
                   max_active_runs, runvars, callvars>>

P_extract_dicom_info_kw ==
    [class |-> "PythonPipelineOperator",
     python_callable |-> "extract_dicom_info_fn",
     parent_task |-> upstream_id,
     pool |-> "io_intensive",
     priority_weight |-> 15]

P_extract_dicom_info ==
    /\ script = "param" /\ pc = "extract_dicom_info"
    /\ AddTask("extract_dicom_info", P_extract_dicom_info_kw)
    /\ upstream_task_ids' = SetUpstream(upstream_task_ids, "extract_dicom_info", upstream)
    /\ upstream' = "extract_dicom_info"
    /\ upstream_id' = "extract_dicom_info"
    /\ pc' = "dicom_to_nifti_pipeline"
    /\ UNCHANGED <<script, flags, upstream_step, returned, params,
                   max_active_runs, runvars, callvars>>

P_dicom_to_nifti_pipeline_kw ==
    [class |-> "SpmPipelineOperator",
     spm_arguments_callable |-> "dicom_to_nifti_arguments_fn",
     pool |-> "io_intensive",
     parent_task |-> upstream_id,
     priority_weight |-> 20,
     on_skip_trigger_dag_id |-> "mri_notify_skipped_processing",
     on_failure_trigger_dag_id |-> "mri_notify_failed_processing"]

\* (dicom_to_nifti_pipeline wired as in the hard-coded DAG)
P_dicom_to_nifti_pipeline_upstream_prepare == "prepare_pipeline"

\* the argument of dicom_to_nifti_pipeline.set_upstream(...)
P_dicom_to_nifti_pipeline_upstream == upstream

P_dicom_to_nifti_pipeline ==
    /\ script = "param" /\ pc = "dicom_to_nifti_pipeline"
    /\ AddTask("dicom_to_nifti_pipeline", P_dicom_to_nifti_pipeline_kw)
    /\ upstream_task_ids' = SetUpstream(upstream_task_ids, "dicom_to_nifti_pipeline",
                                        P_dicom_to_nifti_pipeline_upstream)
    /\ upstream' = "dicom_to_nifti_pipeline"
    /\ upstream_id' = "dicom_to_nifti_pipeline"
    /\ pc' = "cleanup_local_dicom"
    /\ UNCHANGED <<script, flags, upstream_step, returned, params,
                   max_active_runs, runvars, callvars>>

P_cleanup_local_dicom_kw ==
    [class |-> "BashOperator",
     bash_command |-> "cleanup_local_dicom_cmd",
     params |-> [local_folder |-> scope.dicom_local_folder],
     priority_weight |-> 25]

P_cleanup_local_dicom ==
    /\ script = "param" /\ pc = "cleanup_local_dicom"
    /\ AddTask("cleanup_local_dicom", P_cleanup_local_dicom_kw)
    /\ upstream_task_ids' = SetUpstream(upstream_task_ids, "cleanup_local_dicom", upstream)
    /\ pc' = "extract_nifti_info"
    /\ UNCHANGED <<script, flags, upstream, upstream_id, upstream_step, returned, params,
                   max_active_runs, runvars, callvars>>

P_extract_nifti_info_kw ==
    [class |-> "PythonPipelineOperator",
     python_callable |-> "extract_nifti_info_fn",
     parent_task |-> upstream_id,
     pool |-> "io_intensive",
     priority_weight |-> 21]

P_extract_nifti_info ==
    /\ script = "param" /\ pc = "extract_nifti_info"
    /\ AddTask("extract_nifti_info", P_extract_nifti_info_kw)
    /\ upstream_task_ids' = SetUpstream(upstream_task_ids, "extract_nifti_info",
                                        "dicom_to_nifti_pipeline")
    /\ pc' = "notify_success"
    /\ UNCHANGED <<script, flags, upstream, upstream_id, upstream_step, returned, params,
                   max_active_runs, runvars, callvars>>

P_notify_success_kw ==
    [class |-> "TriggerDagRunOperator",
     trigger_dag_id |-> "mri_notify_successful_processing",
     pipeline_trigger |-> "extract_nifti_atlas_info",
     priority_weight |-> 50]

P_notify_success ==
    /\ script = "param" /\ pc = "notify_success"
    /\ AddTask("notify_success", P_notify_success_kw)
    /\ upstream_task_ids' = SetUpstream(upstream_task_ids, "notify_success",
                                        "extract_nifti_info")
    /\ pc' = "mpm_maps"
    /\ UNCHANGED <<script, flags, upstream, upstream_id, upstream_step, returned, params,
                   max_active_runs, runvars, callvars>>
\* (pool='image_preprocessing' left out)
P_mpm_maps_pipeline_kw_unpooled ==
    [class |-> "SpmPipelineOperator",
     spm_arguments_callable |-> "mpm_maps_arguments_fn",
     priority_weight |-> 30,
     parent_task |-> upstream_id,
     on_skip_trigger_dag_id |-> "mri_notify_skipped_processing",
     on_failure_trigger_dag_id |-> "mri_notify_failed_processing"]

P_mpm_maps_pipeline_kw ==
    [class |-> "SpmPipelineOperator",
     spm_arguments_callable |-> "mpm_maps_arguments_fn",
     priority_weight |-> 30,
     pool |-> "image_preprocessing",
     parent_task |-> upstream_id,
     on_skip_trigger_dag_id |-> "mri_notify_skipped_processing",
     on_failure_trigger_dag_id |-> "mri_notify_failed_processing"]

P_mpm_maps ==
    /\ script = "param" /\ pc = "mpm_maps"
    /\ IF flags.mpm_maps
       THEN /\ AddTask("mpm_maps_pipeline", P_mpm_maps_pipeline_kw)
            /\ upstream_task_ids' = SetUpstream(upstream_task_ids, "mpm_maps_pipeline", upstream)
            /\ upstream' = "mpm_maps_pipeline"
            /\ upstream_id' = "mpm_maps_pipeline"
            /\ pc' = "extract_nifti_mpm_info"
       ELSE /\ pc' = "neuro_morphometric_atlas"
            /\ UNCHANGED <<dag, op, upstream_task_ids, upstream, upstream_id>>
    /\ UNCHANGED <<script, flags, upstream_step, returned, params,
                   max_active_runs, runvars, callvars>>

P_extract_nifti_mpm_info_kw ==
    [class |-> "PythonPipelineOperator",
     python_callable |-> "extract_nifti_info_fn",
     parent_task |-> upstream_id,
     pool |-> "io_intensive",
     priority_weight |-> 35]

\* (notify_success.set_upstream(extract_nifti_mpm_info) left out)
P_extract_nifti_mpm_info_links_unnotified ==
    SetUpstream(upstream_task_ids, "extract_nifti_mpm_info", upstream)

\* (extract_nifti_mpm_info.set_upstream(upstream) left out)
P_extract_nifti_mpm_info_links_detached ==
    SetUpstream(upstream_task_ids, "notify_success", "extract_nifti_mpm_info")

\* the upstream lists after extract_nifti_mpm_info.set_upstream(upstream) and
\* notify_success.set_upstream(extract_nifti_mpm_info)
P_extract_nifti_mpm_info_links ==
    SetUpstream(SetUpstream(upstream_task_ids, "extract_nifti_mpm_info", upstream),
                "notify_success", "extract_nifti_mpm_info")

P_extract_nifti_mpm_info ==
    /\ script = "param" /\ pc = "extract_nifti_mpm_info"
    /\ AddTask("extract_nifti_mpm_info", P_extract_nifti_mpm_info_kw)
    /\ upstream_task_ids' = P_extract_nifti_mpm_info_links
    /\ pc' = "neuro_morphometric_atlas"
    /\ UNCHANGED <<script, flags, upstream, upstream_id, upstream_step, returned, params,
                   max_active_runs, runvars, callvars>>

\* (parent_task='dicom_to_nifti_pipeline' in place of parent_task=upstream_id)
P_neuro_morphometric_atlas_pipeline_kw_nifti_parent ==
    [class |-> "SpmPipelineOperator",
     spm_arguments_callable |-> "neuro_morphometric_atlas_arguments_fn",
     pool |-> "image_preprocessing",
     parent_task |-> "dicom_to_nifti_pipeline",
     priority_weight |-> 40,
     on_skip_trigger_dag_id |-> "mri_notify_skipped_processing",
     on_failure_trigger_dag_id |-> "mri_notify_failed_processing"]

P_neuro_morphometric_atlas_pipeline_kw ==
    [class |-> "SpmPipelineOperator",
     spm_arguments_callable |-> "neuro_morphometric_atlas_arguments_fn",
     pool |-> "image_preprocessing",
     parent_task |-> upstream_id,
     priority_weight |-> 40,
     on_skip_trigger_dag_id |-> "mri_notify_skipped_processing",
     on_failure_trigger_dag_id |-> "mri_notify_failed_processing"]

P_neuro_morphometric_atlas ==
    /\ script = "param" /\ pc = "neuro_morphometric_atlas"
    /\ IF flags.neuro_morphometric_atlas
       THEN /\ AddTask("neuro_morphometric_atlas_pipeline",
                       P_neuro_morphometric_atlas_pipeline_kw)
            /\ upstream_task_ids' =
                   SetUpstream(upstream_task_ids, "neuro_morphometric_atlas_pipeline", upstream)
            /\ pc' = "extract_nifti_atlas_info"
       ELSE /\ pc' = "done"
            /\ UNCHANGED <<dag, op, upstream_task_ids>>
    /\ UNCHANGED <<script, flags, upstream, upstream_id, upstream_step, returned, params,
                   max_active_runs, runvars, callvars>>

\* (parent_task=upstream_id in place of parent_task='neuro_morphometric_atlas_pipeline')
P_extract_nifti_atlas_info_kw_upstream_parent ==
    [class |-> "PythonPipelineOperator",
     python_callable |-> "extract_nifti_info_fn",
     parent_task |-> upstream_id,
     pool |-> "io_intensive",
     priority_weight |-> 45]

P_extract_nifti_atlas_info_kw ==
    [class |-> "PythonPipelineOperator",
     python_callable |-> "extract_nifti_info_fn",
     parent_task |-> "neuro_morphometric_atlas_pipeline",
     pool |-> "io_intensive",
     priority_weight |-> 45]

\* (notify_success.set_upstream(extract_nifti_atlas_info) left out)
P_extract_nifti_atlas_info_links_unnotified ==
    SetUpstream(upstream_task_ids, "extract_nifti_atlas_info",
                "neuro_morphometric_atlas_pipeline")

\* (with neuro_morphometric_atlas_pipeline.set_upstream(extract_nifti_atlas_info) added)
P_extract_nifti_atlas_info_links_cyclic ==
    SetUpstream(SetUpstream(SetUpstream(upstream_task_ids, "extract_nifti_atlas_info",
                                        "neuro_morphometric_atlas_pipeline"),
                            "notify_success", "extract_nifti_atlas_info"),
                "neuro_morphometric_atlas_pipeline", "extract_nifti_atlas_info")

\* the upstream lists after extract_nifti_atlas_info.set_upstream(
\* neuro_morphometric_atlas_pipeline) and notify_success.set_upstream(extract_nifti_atlas_info)
P_extract_nifti_atlas_info_links ==
    SetUpstream(SetUpstream(upstream_task_ids, "extract_nifti_atlas_info",
                            "neuro_morphometric_atlas_pipeline"),
                "notify_success", "extract_nifti_atlas_info")

P_extract_nifti_atlas_info ==
    /\ script = "param" /\ pc = "extract_nifti_atlas_info"
    /\ AddTask("extract_nifti_atlas_info", P_extract_nifti_atlas_info_kw)
    /\ upstream_task_ids' = P_extract_nifti_atlas_info_links
    /\ pc' = "done"
    /\ UNCHANGED <<script, flags, upstream, upstream_id, upstream_step, returned, params,
                   max_active_runs, runvars, callvars>>

\* the statements of pre_process_dicom_dag
P_Build ==
    \/ P_call
    \/ P_check_free_space
    \/ P_copy_dicom_to_local
    \/ P_prepare_pipeline
    \/ P_dicom_organizer
    \/ P_extract_dicom_info
    \/ P_dicom_to_nifti_pipeline
    \/ P_cleanup_local_dicom
    \/ P_extract_nifti_info
    \/ P_notify_success
    \/ P_mpm_maps
    \/ P_extract_nifti_mpm_info
    \/ P_neuro_morphometric_atlas
    \/ P_extract_nifti_atlas_info
----------------------------------------------------------------------------
(* mri_pre_process_dicom.py: the hard-coded DAG *)

\* the module-level constants read from the configuration store
H_module_constants ==
    [pipelines_path |-> configuration.PIPELINES_PATH,
     protocols_file |-> configuration.PROTOCOLS_FILE,
     dicom_local_folder |-> configuration.DICOM_LOCAL_FOLDER,
     dicom_to_nifti_local_folder |-> configuration.NIFTI_LOCAL_FOLDER,
     dicom_to_nifti_server_folder |-> configuration.NIFTI_SERVER_FOLDER,
     dicom_to_nifti_pipeline_path |->
         configuration.PIPELINES_PATH \o <<"Nifti_Conversion_Pipeline">>,
     neuro_morphometric_atlas_local_folder |->
         configuration.NEURO_MORPHOMETRIC_ATLAS_LOCAL_FOLDER,
     neuro_morphometric_atlas_server_folder |->
         configuration.NEURO_MORPHOMETRIC_ATLAS_SERVER_FOLDER,
     neuro_morphometric_atlas_pipeline_path |->
         configuration.PIPELINES_PATH
             \o <<"NeuroMorphometric_Pipeline", "NeuroMorphometric_tbx", "label">>,
     mpm_maps_local_folder |-> configuration.MPM_MAPS_LOCAL_FOLDER,
     mpm_maps_server_folder |-> configuration.MPM_MAPS_SERVER_FOLDER,
     mpm_maps_pipeline_path |-> configuration.PIPELINES_PATH \o <<"MPMs_Pipeline">>,
     misc_library_path |-> configuration.PIPELINES_PATH \o <<"..", "Miscellaneous&Others">>]

H_constants ==
    /\ script = "hard" /\ pc = "start"
    /\ scope' = H_module_constants
    /\ pc' = "check_free_space"
    /\ UNCHANGED <<script, flags, dag, op, upstream_task_ids, upstream, upstream_id,
                   upstream_step, returned, params, max_active_runs, runvars,
                   configuration, call>>

H_check_free_space_kw ==
    [class |-> "FreeSpaceSensor",
     retry_delay |-> 3600,
     retries |-> 24 * 7,
     pool |-> "remote_file_copy"]

H_check_free_space ==
    /\ script = "hard" /\ pc = "check_free_space"
    /\ AddTask("check_free_space", H_check_free_space_kw)
    /\ pc' = "copy_dicom_to_local"
    /\ UNCHANGED <<script, flags, upstream_task_ids, upstream, upstream_id, upstream_step,
                   returned, params, max_active_runs, runvars, callvars>>

H_copy_dicom_to_local_kw ==
    [class |-> "BashOperator",
     bash_command |-> "copy_dicom_to_local_cmd",
     params |-> [local_output_folder |-> scope.dicom_local_folder],
     pool |-> "remote_file_copy",
     priority_weight |-> 10]

H_copy_dicom_to_local ==
    /\ script = "hard" /\ pc = "copy_dicom_to_local"
    /\ AddTask("copy_dicom_to_local", H_copy_dicom_to_local_kw)
    /\ upstream_task_ids' = SetUpstream(upstream_task_ids, "copy_dicom_to_local",
                                        "check_free_space")
    /\ pc' = "prepare_pipeline"
    /\ UNCHANGED <<script, flags, upstream, upstream_id, upstream_step,
                   returned, params, max_active_runs, runvars, callvars>>

H_prepare_pipeline_kw ==
    [class |-> "PreparePipelineOperator",
     priority_weight |-> 12]

H_prepare_pipeline ==
    /\ script = "hard" /\ pc = "prepare_pipeline"
    /\ AddTask("prepare_pipeline", H_prepare_pipeline_kw)
    /\ upstream_task_ids' = SetUpstream(upstream_task_ids, "prepare_pipeline",
                                        "copy_dicom_to_local")
    /\ pc' = "extract_dicom_info"
    /\ UNCHANGED <<script, flags, upstream, upstream_id, upstream_step,
                   returned, params, max_active_runs, runvars, callvars>>

H_extract_dicom_info_kw ==
    [class |-> "PythonPipelineOperator",
     python_callable |-> "extract_dicom_info_fn",
     parent_task |-> "prepare_pipeline",
     priority_weight |-> 15]

H_extract_dicom_info ==
    /\ script = "hard" /\ pc = "extract_dicom_info"
    /\ AddTask("extract_dicom_info", H_extract_dicom_info_kw)
    /\ upstream_task_ids' = SetUpstream(upstream_task_ids, "extract_dicom_info",
                                        "prepare_pipeline")
    /\ pc' = "dicom_to_nifti_pipeline"
    /\ UNCHANGED <<script, flags, upstream, upstream_id, upstream_step,
                   returned, params, max_active_runs, runvars, callvars>>

H_dicom_to_nifti_pipeline_kw ==
    [class |-> "SpmPipelineOperator",
     spm_arguments_callable |-> "dicom_to_nifti_arguments_fn",
     pool |-> "image_preprocessing",
     parent_task |-> "prepare_pipeline",
     priority_weight |-> 20]

H_dicom_to_nifti_pipeline ==
    /\ script = "hard" /\ pc = "dicom_to_nifti_pipeline"
    /\ AddTask("dicom_to_nifti_pipeline", H_dicom_to_nifti_pipeline_kw)
    /\ upstream_task_ids' = SetUpstream(upstream_task_ids, "dicom_to_nifti_pipeline",
                                        "prepare_pipeline")
    /\ pc' = "cleanup_local_dicom"
    /\ UNCHANGED <<script, flags, upstream, upstream_id, upstream_step,
                   returned, params, max_active_runs, runvars, callvars>>

H_cleanup_local_dicom_kw ==
    [class |-> "BashOperator",
     bash_command |-> "cleanup_local_dicom_cmd",
     params |-> [local_folder |-> scope.dicom_local_folder],
     priority_weight |-> 25]

H_cleanup_local_dicom ==
    /\ script = "hard" /\ pc = "cleanup_local_dicom"
    /\ AddTask("cleanup_local_dicom", H_cleanup_local_dicom_kw)
    /\ upstream_task_ids' = SetUpstream(upstream_task_ids, "cleanup_local_dicom",
                                        "dicom_to_nifti_pipeline")
    /\ pc' = "extract_nifti_info"
    /\ UNCHANGED <<script, flags, upstream, upstream_id, upstream_step,
                   returned, params, max_active_runs, runvars, callvars>>

H_extract_nifti_info_kw ==
    [class |-> "PythonPipelineOperator",
     python_callable |-> "extract_nifti_info_fn",
     parent_task |-> "dicom_to_nifti_pipeline",
     priority_weight |-> 21]

H_extract_nifti_info ==
    /\ script = "hard" /\ pc = "extract_nifti_info"
    /\ AddTask("extract_nifti_info", H_extract_nifti_info_kw)
    /\ upstream_task_ids' = SetUpstream(upstream_task_ids, "extract_nifti_info",
                                        "dicom_to_nifti_pipeline")
    /\ pc' = "mpm_maps_pipeline"
    /\ UNCHANGED <<script, flags, upstream, upstream_id, upstream_step,
                   returned, params, max_active_runs, runvars, callvars>>

H_mpm_maps_pipeline_kw ==
    [class |-> "SpmPipelineOperator",
     spm_arguments_callable |-> "mpm_maps_arguments_fn",
     priority_weight |-> 30,
     pool |-> "image_preprocessing",
     parent_task |-> "dicom_to_nifti_pipeline"]

H_mpm_maps_pipeline ==
    /\ script = "hard" /\ pc = "mpm_maps_pipeline"
    /\ AddTask("mpm_maps_pipeline", H_mpm_maps_pipeline_kw)
    /\ upstream_task_ids' = SetUpstream(upstream_task_ids, "mpm_maps_pipeline",
                                        "dicom_to_nifti_pipeline")
    /\ pc' = "extract_nifti_mpm_info"
    /\ UNCHANGED <<script, flags, upstream, upstream_id, upstream_step,
                   returned, params, max_active_runs, runvars, callvars>>

H_extract_nifti_mpm_info_kw ==
    [class |-> "PythonPipelineOperator",
     python_callable |-> "extract_nifti_info_fn",
     parent_task |-> "mpm_maps_pipeline",
     priority_weight |-> 35]

H_extract_nifti_mpm_info ==
    /\ script = "hard" /\ pc = "extract_nifti_mpm_info"
    /\ AddTask("extract_nifti_mpm_info", H_extract_nifti_mpm_info_kw)
    /\ upstream_task_ids' = SetUpstream(upstream_task_ids, "extract_nifti_mpm_info",
                                        "mpm_maps_pipeline")
    /\ pc' = "neuro_morphometric_atlas_pipeline"
    /\ UNCHANGED <<script, flags, upstream, upstream_id, upstream_step,
                   returned, params, max_active_runs, runvars, callvars>>

H_neuro_morphometric_atlas_pipeline_kw ==
    [class |-> "SpmPipelineOperator",
     spm_arguments_callable |-> "neuro_morphometric_atlas_arguments_fn",
     pool |-> "image_preprocessing",
     parent_task |-> "mpm_maps_pipeline",
     priority_weight |-> 40]

H_neuro_morphometric_atlas_pipeline ==
    /\ script = "hard" /\ pc = "neuro_morphometric_atlas_pipeline"
    /\ AddTask("neuro_morphometric_atlas_pipeline", H_neuro_morphometric_atlas_pipeline_kw)
    /\ upstream_task_ids' = SetUpstream(upstream_task_ids,
                                        "neuro_morphometric_atlas_pipeline",
                                        "mpm_maps_pipeline")
    /\ pc' = "extract_nifti_atlas_info"
    /\ UNCHANGED <<script, flags, upstream, upstream_id, upstream_step,
                   returned, params, max_active_runs, runvars, callvars>>

H_extract_nifti_atlas_info_kw ==
    [class |-> "PythonPipelineOperator",
     python_callable |-> "extract_nifti_info_fn",
     parent_task |-> "neuro_morphometric_atlas_pipeline",
     priority_weight |-> 45]

H_extract_nifti_atlas_info ==
    /\ script = "hard" /\ pc = "extract_nifti_atlas_info"
    /\ AddTask("extract_nifti_atlas_info", H_extract_nifti_atlas_info_kw)
    /\ upstream_task_ids' = SetUpstream(upstream_task_ids, "extract_nifti_atlas_info",
                                        "neuro_morphometric_atlas_pipeline")
    /\ pc' = "done"
    /\ UNCHANGED <<script, flags, upstream, upstream_id, upstream_step,
                   returned, params, max_active_runs, runvars, callvars>>

\* the statements of mri_pre_process_dicom.py
H_Build ==
    \/ H_constants
    \/ H_check_free_space
    \/ H_copy_dicom_to_local
    \/ H_prepare_pipeline
    \/ H_extract_dicom_info
    \/ H_dicom_to_nifti_pipeline
    \/ H_cleanup_local_dicom
    \/ H_extract_nifti_info
    \/ H_mpm_maps_pipeline
    \/ H_extract_nifti_mpm_info
    \/ H_neuro_morphometric_atlas_pipeline
    \/ H_extract_nifti_atlas_info

----------------------------------------------------------------------------
(* preprocessing_steps/copy_to_local.py: copy_to_local_step *)

\* Step(task, task_id, priority_weight)
Step(task, task_id, priority_weight) ==
    [task |-> task, task_id |-> task_id, priority_weight |-> priority_weight]

copy_to_local_kw ==
    [class |-> "BashPipelineOperator",
     bash_command |-> "copy_to_local_cmd",
     pool |-> "remote_file_copy",
     parent_task |-> upstream_step.task_id,
     priority_weight |-> upstream_step.priority_weight,
     on_failure_trigger_dag_id |-> "mri_notify_failed_processing"]

\* (the set_upstream call left out)
copy_to_local_links_unlinked == upstream_task_ids

\* if upstream_step.task: copy_to_local.set_upstream(upstream_step.task)
copy_to_local_links ==
    IF upstream_step.task # None
    THEN SetUpstream(upstream_task_ids, "copy_to_local", upstream_step.task)
    ELSE upstream_task_ids

copy_to_local_step ==
    /\ script = "step" /\ pc = "copy_to_local_step"
    /\ AddTask("copy_to_local", copy_to_local_kw)
    /\ upstream_task_ids' = copy_to_local_links
    /\ returned' = Step("copy_to_local", "copy_to_local", upstream_step.priority_weight + 10)
    /\ pc' = "done"
    /\ UNCHANGED <<script, flags, upstream, upstream_id, upstream_step,
                   params, max_active_runs, runvars, callvars>>
----------------------------------------------------------------------------
(* The orchestration engine: DAG runs and task instances *)

\* dag_run.conf of a triggered run
DagRunConf == {"folder", "session_id"}

\* dag_run.conf of run r: each run processes the session folder of its own session
dag_run(r) == [conf |-> [folder |-> <<"data", "incoming", ToString(r)>>,
                         session_id |-> <<ToString(r)>>]]

PipelineOperators == {"SpmPipelineOperator", "PythonPipelineOperator",
                      "BashPipelineOperator"}

\* what a python_callable returns into the XCOM of its task
Returned(fn) ==
    IF fn = "extract_dicom_info_fn" THEN {"participant_id", "scan_date"} ELSE {}

\* the keys a pipeline operator receives from its parent_task
Pulled(r, t) ==
    IF op[t].parent_task \in dag THEN xcom[r][op[t].parent_task] ELSE DagRunConf

\* the keys a task leaves for the tasks that name it as parent_task
Pushed(r, t) ==
    IF op[t].class = "PreparePipelineOperator" THEN DagRunConf
    ELSE IF op[t].class \in PipelineOperators
         THEN Pulled(r, t) \cup Returned(op[t].python_callable)
         ELSE {}

\* task instances holding a slot of the pool
Running(pool) ==
    {x \in dag_runs \X dag : ti[x[1]][x[2]] = "running" /\ op[x[2]].pool = pool}

\* pool admission control of the engine
PoolHasSlot(pool) == pool = None \/ Cardinality(Running(pool)) < PoolSlots

\* trigger rule all_success: every direct upstream task succeeded
UpstreamDone(r, t) == \A u \in upstream_task_ids[t] : ti[r][u] = "success"

TriggerDagRun(r) ==
    /\ pc = "done"
    /\ r \notin dag_runs
    /\ r = Cardinality(dag_runs) + 1
    /\ Cardinality(dag_runs) < max_active_runs
    /\ dag_runs' = dag_runs \cup {r}
    /\ UNCHANGED <<dagvars, ti, try_number, triggered, xcom, copied, shell, written, removed, callvars>>

Start(r, t) ==
    /\ pc = "done" /\ r \in dag_runs /\ t \in dag
    /\ ti[r][t] \in {"none", "up_for_retry"}
    /\ UpstreamDone(r, t)
    /\ PoolHasSlot(op[t].pool)
    /\ ti' = [ti EXCEPT ![r][t] = "running"]
    /\ try_number' = [try_number EXCEPT ![r][t] = @ + 1]
    /\ UNCHANGED <<dagvars, dag_runs, triggered, xcom, copied, shell, written, removed, callvars>>

\* the state of a task instance whose attempt failed
AfterFailure(r, t) ==
    IF try_number[r][t] <= op[t].retries THEN "up_for_retry" ELSE "failed"

\* an attempt ends: success, or failure (retried while retries are left)
EndAttempt(r, t, ok) ==
    /\ ti' = [ti EXCEPT ![r][t] = IF ok THEN "success" ELSE AfterFailure(r, t)]
    /\ try_number' = IF ok THEN [try_number EXCEPT ![r][t] = 0] ELSE try_number
    /\ xcom' = IF ok THEN [xcom EXCEPT ![r][t] = Pushed(r, t)] ELSE xcom
    /\ triggered' =
          IF ok /\ op[t].trigger_dag_id # None
          THEN [triggered EXCEPT ![r] = @ \cup {op[t].trigger_dag_id}]
          ELSE IF ~ok /\ op[t].on_failure_trigger_dag_id # None
               THEN [triggered EXCEPT ![r] = @ \cup {op[t].on_failure_trigger_dag_id}]
               ELSE triggered

BashCopyCommands == {"copy_dicom_to_local_cmd", "copy_to_local_cmd"}

\* the bash commands whose attempts are followed statement by statement
BashCommands == BashCopyCommands \cup {"cleanup_local_dicom_cmd"}

Succeed(r, t) ==
    /\ r \in dag_runs /\ t \in dag
    /\ ti[r][t] = "running"
    /\ op[t].bash_command \notin BashCommands
    /\ EndAttempt(r, t, TRUE)
    /\ UNCHANGED <<dagvars, dag_runs, copied, shell, written, removed, callvars>>

Fail(r, t) ==
    /\ r \in dag_runs /\ t \in dag
    /\ ti[r][t] = "running"
    /\ op[t].bash_command \notin BashCommands
    /\ EndAttempt(r, t, FALSE)
    /\ UNCHANGED <<dagvars, dag_runs, copied, shell, written, removed, callvars>>

\* a pipeline operator finds nothing to process and skips
Skip(r, t) ==
    /\ r \in dag_runs /\ t \in dag
    /\ ti[r][t] = "running"
    /\ op[t].on_skip_trigger_dag_id # None
    /\ ti' = [ti EXCEPT ![r][t] = "skipped"]
    /\ try_number' = [try_number EXCEPT ![r][t] = 0]
    /\ triggered' = [triggered EXCEPT ![r] = @ \cup {op[t].on_skip_trigger_dag_id}]
    /\ UNCHANGED <<dagvars, dag_runs, xcom, copied, shell, written, removed, callvars>>
----------------------------------------------------------------------------
(* The bash commands of the copy tasks *)

\* percentage of used space that df reports
UsedPercent == 0..100

\* values of MIN_FREE_SPACE (a fraction of 1), in hundredths
MinFreeSpaceValues == {0, 1, 10, 30, 50, 100}

\* words of a command line: a number, a bare word, a $parameter, a float literal
Num(n) == [kind |-> "num", v |-> n]
Word(w) == [kind |-> "word", v |-> w]
Param(w) == [kind |-> "param", v |-> w]

\* {{ params[...]|float * 100 }}: a fraction in hundredths rendered as a float literal
JinjaFloatTimes100(hundredths) == [kind |-> "float", v |-> hundredths]

\* parameter expansion of the shell: only $name is replaced by the variable's value
ShellExpand(tok, env) == IF tok.kind = "param" THEN Num(env[tok.v]) ELSE tok

\* bc: a number is itself, a name is a bc variable, and a bc variable never assigned is 0
BcValue(tok) == IF tok.kind \in {"num", "float"} THEN tok.v ELSE 0

\* echo "a - b < c" | bc prints 1 when the relation holds and 0 otherwise
Bc(a, b, c) == IF BcValue(a) - BcValue(b) < BcValue(c) THEN 1 ELSE 0

\* bash (( a - b < c )): names are shell variables; a float literal is a syntax
\* error, the command then returns a non-zero status and the `if` takes no branch
BashArithValue(tok, env) == IF tok.kind = "num" THEN tok.v ELSE env[tok.v]
BashArith(a, b, c, env) ==
    IF "float" \in {a.kind, b.kind, c.kind} THEN FALSE
    ELSE BashArithValue(a, env) - BashArithValue(b, env) < BashArithValue(c, env)

\* is_full=$(echo "101 - used < {{ params['min_free_space']|float * 100 }}" | bc)
copy_to_local_is_full(env) ==
    Bc(ShellExpand(Num(101), env), ShellExpand(Word("used"), env),
       ShellExpand(JinjaFloatTimes100(params.min_free_space), env))

\* copy_to_local_cmd, run as the body of an attempt of copy_to_local; useds are the
\* percentages df may report and rsync_oks the outcomes rsync may have
CopyToLocalCmd(r, useds, rsync_oks) ==
    /\ r \in dag_runs /\ "copy_to_local" \in dag
    /\ ti[r]["copy_to_local"] = "running"
    /\ \E used \in useds, rsync_ok \in rsync_oks :
         LET env == [used |-> used]
             is_full == copy_to_local_is_full(env)
         IN IF is_full = 1
            THEN /\ shell' = [shell EXCEPT ![r] =
                                [ran |-> TRUE, used |-> used, is_full |-> is_full,
                                 stdout |-> "Not enough space left, cannot continue",
                                 exit |-> 1, rsync |-> FALSE]]
                 /\ copied' = copied
                 /\ EndAttempt(r, "copy_to_local", FALSE)
            ELSE /\ shell' = [shell EXCEPT ![r] =
                                [ran |-> TRUE, used |-> used, is_full |-> is_full,
                                 stdout |-> "",
                                 exit |-> IF rsync_ok THEN 0 ELSE 23, rsync |-> TRUE]]
                 /\ copied' = [copied EXCEPT ![r] = TRUE]
                 /\ EndAttempt(r, "copy_to_local", rsync_ok)
    /\ written' = [written EXCEPT ![r] = @ \cup {<<"$AIRFLOW_OUTPUT_DIR">>}]
    /\ UNCHANGED <<dagvars, dag_runs, removed, callvars>>

\* if (( 101 - used < {{ params['min_free_space_local_folder']|float * 100 }} ))
copy_dicom_to_local_is_full(env) ==
    BashArith(Num(101), Word("used"),
              JinjaFloatTimes100(params.min_free_space_local_folder), env)

\* rsync -av ... {{ params["local_output_folder"] }}/{{ dag_run.conf["session_id"] }}
copy_dicom_to_local_target(r) ==
    op["copy_dicom_to_local"].params.local_output_folder \o dag_run(r).conf.session_id

\* copy_dicom_to_local_cmd, run as the body of an attempt of copy_dicom_to_local
CopyDicomToLocalCmd(r, rsync_oks) ==
    /\ r \in dag_runs /\ "copy_dicom_to_local" \in dag
    /\ ti[r]["copy_dicom_to_local"] = "running"
    /\ \E used \in UsedPercent, rsync_ok \in rsync_oks :
         IF copy_dicom_to_local_is_full([used |-> used])
         THEN /\ copied' = copied
              /\ written' = written
              /\ EndAttempt(r, "copy_dicom_to_local", FALSE)
         ELSE /\ copied' = [copied EXCEPT ![r] = TRUE]
              /\ written' = [written EXCEPT ![r] = @ \cup {copy_dicom_to_local_target(r)}]
              /\ EndAttempt(r, "copy_dicom_to_local", rsync_ok)
    /\ UNCHANGED <<dagvars, dag_runs, shell, removed, callvars>>

\* {{ params["local_folder"] }}/{{ dag_run.conf["session_id"] }}
cleanup_local_dicom_target(r) ==
    op["cleanup_local_dicom"].params.local_folder \o dag_run(r).conf.session_id

\* cleanup_local_dicom_cmd, run as the body of an attempt of cleanup_local_dicom:
\* rm -rf removes the path; oks are the outcomes the attempt may have
CleanupLocalDicomCmd(r, oks) ==
    /\ r \in dag_runs /\ "cleanup_local_dicom" \in dag
    /\ ti[r]["cleanup_local_dicom"] = "running"
    /\ \E ok \in oks :
         /\ removed' = [removed EXCEPT ![r] = @ \cup {cleanup_local_dicom_target(r)}]
         /\ EndAttempt(r, "cleanup_local_dicom", ok)
    /\ UNCHANGED <<dagvars, dag_runs, copied, shell, written, callvars>>

----------------------------------------------------------------------------
(* The argument builders of the SPM pipelines *)

\* folders and session ids of the DAG runs used to call the builders
Folders == {<<"data", "incoming", "s1">>, <<"s2">>, <<>>}
SessionIds == {<<"s1">>, <<"s2">>}

\* os.path.abspath(folder + '/..'): the parent folder; the root is its own parent
ParentDataFolder(folder) ==
    IF Len(folder) = 0 THEN folder ELSE SubSeq(folder, 1, Len(folder) - 1)

NameError == <<"NameError">>

\* reading a free variable of a builder: its binding in the enclosing scope, or a
\* NameError when no enclosing scope binds it
Lookup(name) == IF name \in DOMAIN scope THEN scope[name] ELSE NameError

\* a list display: evaluating it raises when one of its elements raises
ListDisplay(elems) ==
    IF \E i \in 1..Len(elems) : elems[i] = NameError
    THEN [raised |-> "NameError", value |-> <<>>]
    ELSE [raised |-> None, value |-> elems]

dicom_organizer_arguments_fn(folder, session_id) ==
    ListDisplay(<<ParentDataFolder(folder),
                  Lookup("dicom_organizer_local_folder"),
                  session_id,
                  Lookup("dicom_organizer_data_structure"),
                  Lookup("protocols_file")>>)

dicom_to_nifti_arguments_fn(folder, session_id) ==
    ListDisplay(<<ParentDataFolder(folder),
                  session_id,
                  Lookup("dicom_to_nifti_local_folder"),
                  Lookup("dicom_to_nifti_server_folder"),
                  Lookup("protocols_file")>>)

neuro_morphometric_atlas_arguments_fn(folder, session_id) ==
    ListDisplay(<<session_id,
                  ParentDataFolder(folder),
                  Lookup("neuro_morphometric_atlas_local_folder"),
                  Lookup("neuro_morphometric_atlas_server_folder"),
                  Lookup("protocols_file"),
                  <<"csv">> >>)

mpm_maps_arguments_fn(folder, session_id) ==
    ListDisplay(<<ParentDataFolder(folder),
                  session_id,
                  Lookup("mpm_maps_local_folder"),
                  Lookup("protocols_file"),
                  <<"Preproc_mpm_maps_pipeline_config.txt">>,
                  Lookup("mpm_maps_server_folder")>>)

\* position of the protocols file in the list each builder returns
ProtocolsIndex(fn) ==
    IF fn = "mpm_maps_arguments_fn" THEN 4 ELSE 5

ArgumentsFn(fn, folder, session_id) ==
    CASE fn = "dicom_organizer_arguments_fn" -> dicom_organizer_arguments_fn(folder, session_id)
      [] fn = "dicom_to_nifti_arguments_fn" -> dicom_to_nifti_arguments_fn(folder, session_id)
      [] fn = "neuro_morphometric_atlas_arguments_fn" ->
             neuro_morphometric_atlas_arguments_fn(folder, session_id)
      [] fn = "mpm_maps_arguments_fn" -> mpm_maps_arguments_fn(folder, session_id)

\* an SPM pipeline operator of the finished DAG calls its spm_arguments_callable
CallArgumentsFn(t, folder, session_id) ==
    /\ pc = "done" /\ t \in dag
    /\ op[t].spm_arguments_callable # None
    /\ call' = [task |-> t, fn |-> op[t].spm_arguments_callable,
                result |-> ArgumentsFn(op[t].spm_arguments_callable, folder, session_id)]
    /\ UNCHANGED <<dagvars, runvars, configuration, scope>>

----------------------------------------------------------------------------
(* Initial states and specifications *)

\* defaults of the flags of pre_process_dicom_dag
DefaultFlags == [copy_dicom_to_local |-> TRUE, dicom_organizer |-> FALSE,
                 mpm_maps |-> TRUE, neuro_morphometric_atlas |-> TRUE]

FlagSets == [copy_dicom_to_local : BOOLEAN, dicom_organizer : BOOLEAN,
             mpm_maps : BOOLEAN, neuro_morphometric_atlas : BOOLEAN]

\* the steps handed to copy_to_local_step: the first step of a chain (no task yet),
\* or a step returned by the step before
UpstreamSteps == {Step(None, None, 0), Step("upstream_task", "upstream_task", 0),
                  Step("upstream_task", "upstream_task", 10)}

NoShell == [ran |-> FALSE, used |-> 0, is_full |-> 0, stdout |-> "", exit |-> 0,
            rsync |-> FALSE]

NoCall == [task |-> None, fn |-> None, result |-> [raised |-> None, value |-> <<>>]]

InitRuns ==
    /\ dag_runs = {}
    /\ ti = [r \in RunIds |-> [t \in TaskIds |-> "none"]]
    /\ try_number = [r \in RunIds |-> [t \in TaskIds |-> 0]]
    /\ triggered = [r \in RunIds |-> {}]
    /\ xcom = [r \in RunIds |-> [t \in TaskIds |-> {}]]
    /\ copied = [r \in RunIds |-> FALSE]
    /\ shell = [r \in RunIds |-> NoShell]
    /\ written = [r \in RunIds |-> {}]
    /\ removed = [r \in RunIds |-> {}]

InitDag ==
    /\ script \in {"param", "hard", "step"}
    /\ flags \in (IF script = "param" THEN FlagSets ELSE {DefaultFlags})
    /\ pc = (IF script = "step" THEN "copy_to_local_step" ELSE "start")
    /\ upstream_step \in (IF script = "step" THEN UpstreamSteps ELSE {Step(None, None, 0)})
    /\ dag = (IF upstream_step.task # None THEN {upstream_step.task} ELSE {})
    /\ op = [t \in dag |-> Operator([class |-> "BaseOperator"])]
    /\ upstream_task_ids = NoUpstream
    /\ upstream = None
    /\ upstream_id = None
    /\ returned = None
    /\ params \in (IF script = "step"
                   THEN {[min_free_space |-> m] : m \in MinFreeSpaceValues}
                   ELSE {[min_free_space_local_folder |-> 30]})

ProtocolsFiles == {<<"protocols", "Protocols_definition.txt">>, <<"protocols_v2.txt">>}

Init ==
    /\ InitDag
    /\ max_active_runs = 1
    /\ InitRuns
    /\ configuration = Configuration(<<"protocols", "Protocols_definition.txt">>)
    /\ scope = <<>>
    /\ call = NoCall

\* the DAG definitions under every value of PROTOCOLS_FILE, for the builders
InitArgs ==
    /\ InitDag
    /\ max_active_runs = 1
    /\ InitRuns
    /\ configuration \in {Configuration(p) : p \in ProtocolsFiles}
    /\ scope = <<>>
    /\ call = NoCall

Build == P_Build \/ H_Build \/ copy_to_local_step

Engine ==
    \/ \E r \in RunIds : TriggerDagRun(r)
    \/ \E r \in RunIds, t \in TaskIds : Start(r, t)
    \/ \E r \in RunIds, t \in TaskIds : Succeed(r, t)
    \/ \E r \in RunIds, t \in TaskIds : Fail(r, t)
    \/ \E r \in RunIds, t \in TaskIds : Skip(r, t)
    \/ \E r \in RunIds : CopyToLocalCmd(r, UsedPercent, BOOLEAN)
    \/ \E r \in RunIds : CopyDicomToLocalCmd(r, BOOLEAN)
    \/ \E r \in RunIds : CleanupLocalDicomCmd(r, BOOLEAN)

Next == Build \/ Engine

Spec == Init /\ [][Next]_vars

\* the tasks upstream of t, direct or not
RECURSIVE Ancestors(_)
Ancestors(t) ==
    upstream_task_ids[t] \cup UNION {Ancestors(u) : u \in upstream_task_ids[t]}

LimitedPools == {"remote_file_copy", "image_preprocessing"}

\* the tasks of the pools 'remote_file_copy' and 'image_preprocessing' and the tasks
\* upstream of them; the start of such a task depends on no task outside this set
\* but through the pool 'io_intensive', which can only delay it
PoolScope ==
    LET pooled == {t \in dag : op[t].pool \in LimitedPools}
    IN pooled \cup UNION {Ancestors(t) : t \in pooled}

InitPool ==
    /\ InitDag
    /\ max_active_runs = MaxActiveRuns
    /\ InitRuns
    /\ configuration = Configuration(<<"protocols", "Protocols_definition.txt">>)
    /\ scope = <<>>
    /\ call = NoCall

EnginePool ==
    \/ \E r \in RunIds : TriggerDagRun(r)
    \/ \E r \in RunIds, t \in TaskIds : t \in PoolScope /\ Start(r, t)
    \/ \E r \in RunIds, t \in TaskIds : Succeed(r, t)
    \/ \E r \in RunIds : CopyToLocalCmd(r, {0, 100}, {TRUE})
    \/ \E r \in RunIds : CopyDicomToLocalCmd(r, {TRUE})

NextPool == Build \/ EnginePool

\* concurrent runs of one DAG whose attempts all succeed, followed on the tasks of
\* the limited pools and their upstream tasks
SpecPool == InitPool /\ [][NextPool]_vars

Calls == \E t \in TaskIds, folder \in Folders, session_id \in SessionIds :
             CallArgumentsFn(t, folder, session_id)

NextArgs == Build \/ Calls

\* the DAG definitions followed by calls of the argument builders
SpecArgs == InitArgs /\ [][NextArgs]_vars
----------------------------------------------------------------------------
(* Properties *)

\* the task instance has started at least one attempt
Started(r, t) == ti[r][t] # "none"

\* in run r, the tasks of `order` that are registered start in that order: none of
\* them has started unless the registered task before it in `order` has succeeded
StartInOrder(r, order) ==
    \A i, j \in 1..Len(order) :
        (i < j /\ order[i] \in dag /\ order[j] \in dag /\ Started(r, order[j]))
            => ti[r][order[i]] = "success"

C1_order == <<"check_free_space", "copy_dicom_to_local", "prepare_pipeline",
              "dicom_organizer_pipeline", "extract_dicom_info",
              "dicom_to_nifti_pipeline", "extract_nifti_info", "notify_success">>

\* C1: in every run of the parameterized DAG, whatever the four flags, the registered
\* tasks among check_free_space, copy_dicom_to_local, prepare_pipeline,
\* dicom_organizer_pipeline, extract_dicom_info, dicom_to_nifti_pipeline,
\* extract_nifti_info, notify_success start in this order, each only after the
\* registered task before it has succeeded.
C1_ParamStartOrder ==
    script = "param" => \A r \in dag_runs : StartInOrder(r, C1_order)

\* a run of the parameterized DAG with all eight tasks registered reached notify_success
C1_Witness ==
    /\ script = "param"
    /\ flags.copy_dicom_to_local /\ flags.dicom_organizer
    /\ 1 \in dag_runs
    /\ ti[1]["notify_success"] = "success"

C2_order == <<"check_free_space", "copy_dicom_to_local", "prepare_pipeline",
              "extract_dicom_info", "dicom_to_nifti_pipeline", "extract_nifti_info">>

\* C2: in every run of the hard-coded DAG the tasks check_free_space,
\* copy_dicom_to_local, prepare_pipeline, extract_dicom_info, dicom_to_nifti_pipeline,
\* extract_nifti_info start in this order; in particular dicom_to_nifti_pipeline
\* never starts before extract_dicom_info has succeeded.
C2_HardStartOrder ==
    script = "hard" => \A r \in dag_runs : StartInOrder(r, C2_order)
\* the callable an operator calls with the keys of its parent_task
Callable(t) ==
    IF op[t].python_callable # None THEN op[t].python_callable
    ELSE op[t].spm_arguments_callable

\* the positional parameters of the callables
RequiredArguments(fn) ==
    IF fn \in {"dicom_to_nifti_arguments_fn", "mpm_maps_arguments_fn",
               "neuro_morphometric_atlas_arguments_fn", "extract_nifti_info_fn"}
    THEN {"folder", "session_id", "participant_id", "scan_date"}
    ELSE IF fn \in {"extract_dicom_info_fn", "dicom_organizer_arguments_fn"}
         THEN {"folder", "session_id"}
         ELSE {}

\* the tasks reached from t by following parent_task links
RECURSIVE ParentChain(_)
ParentChain(t) ==
    IF t \notin dag \/ op[t].parent_task \notin dag THEN {}
    ELSE {op[t].parent_task} \cup ParentChain(op[t].parent_task)

VisitInfo == {"participant_id", "scan_date"}

\* C3: in both DAG scripts, every task whose callable requires participant_id and
\* scan_date reaches extract_dicom_info by following parent_task links, and whenever
\* such a task runs, participant_id and scan_date are among the keys it receives
\* from its parent_task.
C3_VisitInfoDefined ==
    script \in {"param", "hard"} =>
        \A t \in dag :
            VisitInfo \subseteq RequiredArguments(Callable(t)) =>
                /\ "extract_dicom_info" \in ParentChain(t)
                /\ \A r \in dag_runs :
                       ti[r][t] = "running" => VisitInfo \subseteq Pulled(r, t)

SpmTasks == {"dicom_organizer_pipeline", "dicom_to_nifti_pipeline",
             "mpm_maps_pipeline", "neuro_morphometric_atlas_pipeline"}

\* C4: in the parameterized DAG every SPM pipeline task declares
\* on_failure_trigger_dag_id 'mri_notify_failed_processing' and
\* on_skip_trigger_dag_id 'mri_notify_skipped_processing'; in a run where one of
\* them ended in failure, the failure notification has been triggered, and
\* notify_success has not started and the success notification is not triggered.
C4_FailureNotified ==
    script = "param" =>
        \A t \in SpmTasks \cap dag :
            /\ op[t].on_failure_trigger_dag_id = "mri_notify_failed_processing"
            /\ op[t].on_skip_trigger_dag_id = "mri_notify_skipped_processing"
            /\ \A r \in dag_runs :
                   ti[r][t] = "failed" =>
                       /\ "mri_notify_failed_processing" \in triggered[r]
                       /\ ~Started(r, "notify_success")
                       /\ "mri_notify_successful_processing" \notin triggered[r]

\* mpm_maps_pipeline ended in failure while the main branch up to
\* extract_nifti_info succeeded
C4_Witness ==
    /\ script = "param"
    /\ 1 \in dag_runs
    /\ ti[1]["mpm_maps_pipeline"] = "failed"
    /\ ti[1]["extract_nifti_info"] = "success"

\* C5: in both DAG scripts check_free_space retries every hour, 24*7 = 168 times (at
\* most 169 attempts per run); no other task of a run starts unless check_free_space
\* has succeeded, and when check_free_space has failed no file has been copied.
C5_FreeSpaceGate ==
    (script \in {"param", "hard"} /\ "check_free_space" \in dag) =>
        /\ op["check_free_space"].retry_delay = 3600
        /\ op["check_free_space"].retries = 168
        /\ \A r \in dag_runs :
            /\ try_number[r]["check_free_space"] <= 169
            /\ \A t \in dag \ {"check_free_space"} :
                   Started(r, t) => ti[r]["check_free_space"] = "success"
            /\ ti[r]["check_free_space"] = "failed" =>
                   /\ ~copied[r]
                   /\ \A t \in dag \ {"check_free_space"} : ~Started(r, t)

\* all 169 attempts of check_free_space failed
C5_Witness ==
    /\ script \in {"param", "hard"}
    /\ 1 \in dag_runs
    /\ ti[1]["check_free_space"] = "failed"
    /\ try_number[1]["check_free_space"] = 169

\* C6: whenever the copy_to_local command has run with df reporting `used` percent
\* and 101 - used < min_free_space * 100, it printed 'Not enough space left, cannot
\* continue', exited with status 1 and did not run rsync; otherwise rsync ran.
C6_MinFreeSpaceEnforced ==
    script = "step" =>
        \A r \in dag_runs :
            shell[r].ran =>
                IF 101 - shell[r].used < params.min_free_space
                THEN /\ shell[r].stdout = "Not enough space left, cannot continue"
                     /\ shell[r].exit = 1
                     /\ ~shell[r].rsync
                ELSE shell[r].rsync

\* C7 as stated: after copy_to_local_step, for every upstream_step, the task of
\* upstream_step is a direct upstream of copy_to_local, parent_task is the id of
\* that direct upstream, and the returned handle is the copy_to_local task.
C7_AlwaysLinked ==
    (script = "step" /\ pc = "done") =>
        /\ upstream_step.task \in upstream_task_ids["copy_to_local"]
        /\ op["copy_to_local"].parent_task \in upstream_task_ids["copy_to_local"]
        /\ returned.task = "copy_to_local"

\* C7 amended: after copy_to_local_step, parent_task is upstream_step.task_id and
\* the returned handle is the copy_to_local task; when upstream_step carries a task,
\* that task is the one direct upstream of copy_to_local and parent_task is its id;
\* when upstream_step carries no task, copy_to_local has no upstream.
C7_LinkedWhenTask ==
    (script = "step" /\ pc = "done") =>
        /\ op["copy_to_local"].parent_task = upstream_step.task_id
        /\ returned.task = "copy_to_local"
        /\ returned.task_id = "copy_to_local"
        /\ upstream_step.task # None =>
               /\ upstream_task_ids["copy_to_local"] = {upstream_step.task}
               /\ op["copy_to_local"].parent_task = upstream_step.task
        /\ upstream_step.task = None => upstream_task_ids["copy_to_local"] = {}

\* copy_to_local_step was called with a step that carries a task
C7_Witness ==
    /\ script = "step" /\ pc = "done"
    /\ upstream_step.task = "upstream_task"
    /\ "copy_to_local" \in dag

\* C8: every argument list built by an argument builder holds the configured
\* protocols file as its protocols-file element, and no builder reads a name that
\* was never defined.
C8_ProtocolsFileDefined ==
    call.fn # None =>
        /\ call.result.raised = None
        /\ call.result.value[ProtocolsIndex(call.fn)] = configuration.PROTOCOLS_FILE
\* the task ids, upstream lists and parent_task of the hard-coded DAG
H_task_ids == {"check_free_space", "copy_dicom_to_local", "prepare_pipeline",
               "extract_dicom_info", "dicom_to_nifti_pipeline", "cleanup_local_dicom",
               "extract_nifti_info", "mpm_maps_pipeline", "extract_nifti_mpm_info",
               "neuro_morphometric_atlas_pipeline", "extract_nifti_atlas_info"}

H_upstream_task_ids ==
    [t \in TaskIds |->
        CASE t = "copy_dicom_to_local" -> {"check_free_space"}
          [] t = "prepare_pipeline" -> {"copy_dicom_to_local"}
          [] t = "extract_dicom_info" -> {"prepare_pipeline"}
          [] t = "dicom_to_nifti_pipeline" -> {"prepare_pipeline"}
          [] t = "cleanup_local_dicom" -> {"dicom_to_nifti_pipeline"}
          [] t = "extract_nifti_info" -> {"dicom_to_nifti_pipeline"}
          [] t = "mpm_maps_pipeline" -> {"dicom_to_nifti_pipeline"}
          [] t = "extract_nifti_mpm_info" -> {"mpm_maps_pipeline"}
          [] t = "neuro_morphometric_atlas_pipeline" -> {"mpm_maps_pipeline"}
          [] t = "extract_nifti_atlas_info" -> {"neuro_morphometric_atlas_pipeline"}
          [] OTHER -> {}]

H_parent_task ==
    [t \in H_task_ids |->
        CASE t = "extract_dicom_info" -> H_extract_dicom_info_kw.parent_task
          [] t = "dicom_to_nifti_pipeline" -> H_dicom_to_nifti_pipeline_kw.parent_task
          [] t = "extract_nifti_info" -> H_extract_nifti_info_kw.parent_task
          [] t = "mpm_maps_pipeline" -> H_mpm_maps_pipeline_kw.parent_task
          [] t = "extract_nifti_mpm_info" -> H_extract_nifti_mpm_info_kw.parent_task
          [] t = "neuro_morphometric_atlas_pipeline" ->
                 H_neuro_morphometric_atlas_pipeline_kw.parent_task
          [] t = "extract_nifti_atlas_info" -> H_extract_nifti_atlas_info_kw.parent_task
          [] OTHER -> None]

\* the finished hard-coded DAG is the graph described by H_task_ids,
\* H_upstream_task_ids and H_parent_task
HardDagAsDescribed ==
    (script = "hard" /\ pc = "done") =>
        /\ dag = H_task_ids
        /\ upstream_task_ids = H_upstream_task_ids
        /\ \A t \in dag : op[t].parent_task = H_parent_task[t]

RemoteCopyTasks == {"check_free_space", "copy_dicom_to_local", "copy_to_local"}
ImagePreprocessingTasks == {"mpm_maps_pipeline", "neuro_morphometric_atlas_pipeline"}

\* the running task instances, over all runs, of the tasks in `tasks`
RunningAmong(tasks) ==
    {x \in dag_runs \X (dag \cap tasks) : ti[x[1]][x[2]] = "running"}

\* C10: under any interleaving of concurrent runs, at most PoolSlots instances of
\* check_free_space, copy_dicom_to_local and copy_to_local run together, and at most
\* PoolSlots instances of mpm_maps_pipeline and neuro_morphometric_atlas_pipeline;
\* each of these tasks is assigned to pool 'remote_file_copy', respectively
\* 'image_preprocessing', in every configuration.
C10_PoolLimits ==
    /\ Cardinality(RunningAmong(RemoteCopyTasks)) <= PoolSlots
    /\ Cardinality(RunningAmong(ImagePreprocessingTasks)) <= PoolSlots
    /\ \A t \in dag \cap RemoteCopyTasks : op[t].pool = "remote_file_copy"
    /\ \A t \in dag \cap ImagePreprocessingTasks : op[t].pool = "image_preprocessing"

\* mpm_maps_pipeline of one run holds the slot while the one of another run, whose
\* upstream tasks succeeded, waits
C10_Witness ==
    /\ {1, 2} \subseteq dag_runs
    /\ "mpm_maps_pipeline" \in dag
    /\ ti[1]["mpm_maps_pipeline"] = "running"
    /\ ti[2]["mpm_maps_pipeline"] = "none"
    /\ UpstreamDone(2, "mpm_maps_pipeline")

\* the tasks that read the local DICOM session folder
DicomReaders == {"extract_dicom_info", "dicom_organizer_pipeline",
                 "dicom_to_nifti_pipeline"}

\* the task instance is still to run or is running
Unfinished(r, t) == ti[r][t] \in {"none", "running", "up_for_retry"}

\* C11: in both DAG scripts, in every run, cleanup_local_dicom has not started while
\* a registered task that reads the local DICOM session folder (extract_dicom_info,
\* dicom_organizer_pipeline, dicom_to_nifti_pipeline) is running or has not yet run.
C11_CleanupAfterReaders ==
    script \in {"param", "hard"} =>
        \A r \in dag_runs :
            Started(r, "cleanup_local_dicom") =>
                \A t \in DicomReaders \cap dag : ~Unfinished(r, t)

\* the tasks upstream of t within n links
RECURSIVE UpstreamWithin(_, _)
UpstreamWithin(t, n) ==
    IF n = 0 THEN {}
    ELSE upstream_task_ids[t]
         \cup UNION {UpstreamWithin(u, n - 1) : u \in upstream_task_ids[t]}

\* the tasks a task instance of t waits for, direct or not
WaitsFor(t) == UpstreamWithin(t, Cardinality(dag))

\* the extraction tasks whose results notify_success announces, under the flags
EnabledExtractions ==
    {"extract_nifti_info"}
    \cup (IF flags.mpm_maps THEN {"mpm_maps_pipeline", "extract_nifti_mpm_info"} ELSE {})
    \cup (IF flags.neuro_morphometric_atlas
          THEN {"neuro_morphometric_atlas_pipeline", "extract_nifti_atlas_info"}
          ELSE {})

\* C12: in the parameterized DAG, whatever mpm_maps and neuro_morphometric_atlas,
\* notify_success has started, or the success notification has been triggered, only
\* in runs where extract_nifti_info and every enabled optional pipeline and extraction
\* task (mpm_maps_pipeline and extract_nifti_mpm_info when mpm_maps,
\* neuro_morphometric_atlas_pipeline and extract_nifti_atlas_info when
\* neuro_morphometric_atlas) have succeeded; cleanup_local_dicom is not among the
\* tasks notify_success waits for.
C12_NotifyAfterExtractions ==
    script = "param" =>
        /\ "notify_success" \in dag => "cleanup_local_dicom" \notin WaitsFor("notify_success")
        /\ \A r \in dag_runs :
               (Started(r, "notify_success")
                \/ "mri_notify_successful_processing" \in triggered[r])
                   => \A t \in EnabledExtractions : ti[r][t] = "success"

\* notify_success succeeded in a run with both optional branches enabled, while
\* cleanup_local_dicom has not started
C12_Witness ==
    /\ script = "param"
    /\ flags.mpm_maps /\ flags.neuro_morphometric_atlas
    /\ 1 \in dag_runs
    /\ ti[1]["notify_success"] = "success"
    /\ ti[1]["cleanup_local_dicom"] = "none"

\* C13: in the parameterized DAG, whatever the four flags, once the DAG is defined
\* the task id that notify_success hands to pipeline_trigger
\* ('extract_nifti_atlas_info') is the id of a task registered in the DAG, and this
\* task is a direct upstream of notify_success.
C13_TriggerSourceRegistered ==
    (script = "param" /\ pc = "done") =>
        /\ op["notify_success"].pipeline_trigger = "extract_nifti_atlas_info"
        /\ op["notify_success"].pipeline_trigger \in dag
        /\ op["notify_success"].pipeline_trigger \in upstream_task_ids["notify_success"]

\* the operators of pre_process_dicom_dag that are given a parent_task
TasksWithParent == {"dicom_organizer_pipeline", "extract_dicom_info",
                    "dicom_to_nifti_pipeline", "extract_nifti_info",
                    "mpm_maps_pipeline", "extract_nifti_mpm_info",
                    "neuro_morphometric_atlas_pipeline", "extract_nifti_atlas_info"}

\* C14: in the parameterized DAG, whatever the four flags, at every point of the DAG
\* definition the registered operators with a parent_task are the registered ones
\* among dicom_organizer_pipeline, extract_dicom_info, dicom_to_nifti_pipeline,
\* extract_nifti_info, mpm_maps_pipeline, extract_nifti_mpm_info,
\* neuro_morphometric_atlas_pipeline and extract_nifti_atlas_info; the parent_task of
\* each is the task_id of a registered task that is one of its direct upstream
\* tasks; and the variables upstream and upstream_id denote the same task, which is
\* registered once check_free_space is.
C14_ParentIsDirectUpstream ==
    script = "param" =>
        /\ {t \in dag : op[t].parent_task # None} = TasksWithParent \cap dag
        /\ \A t \in TasksWithParent \cap dag :
               /\ op[t].parent_task \in dag
               /\ op[t].parent_task \in upstream_task_ids[t]
        /\ upstream = upstream_id
        /\ dag # {} => upstream \in dag

\* the DAG with all eight operators is defined
C14_Witness ==
    /\ script = "param" /\ pc = "done"
    /\ TasksWithParent \subseteq dag

\* the tasks pre_process_dicom_dag registers whatever the flags
UnconditionalTasks == {"check_free_space", "prepare_pipeline", "extract_dicom_info",
                       "dicom_to_nifti_pipeline", "cleanup_local_dicom",
                       "extract_nifti_info", "notify_success"}

\* the tasks registered inside the `if` of each flag
FlagTasks(f) ==
    (IF f.copy_dicom_to_local THEN {"copy_dicom_to_local"} ELSE {})
    \cup (IF f.dicom_organizer THEN {"dicom_organizer_pipeline"} ELSE {})
    \cup (IF f.mpm_maps THEN {"mpm_maps_pipeline", "extract_nifti_mpm_info"} ELSE {})
    \cup (IF f.neuro_morphometric_atlas
          THEN {"neuro_morphometric_atlas_pipeline", "extract_nifti_atlas_info"}
          ELSE {})

Registered(t) == t \in dag

\* every task of `chain` after the first has the task before it as only upstream
Chained(chain) ==
    \A i \in 2..Len(chain) : upstream_task_ids[chain[i]] = {chain[i - 1]}

\* C15: for each of the 16 flag combinations, the task graph pre_process_dicom_dag
\* has produced is acyclic; check_free_space is its only task without upstream and
\* every other registered task is reachable from it; the registered tasks are the
\* unconditional ones and the tasks of the enabled flags (copy_dicom_to_local;
\* dicom_organizer_pipeline; mpm_maps_pipeline and extract_nifti_mpm_info;
\* neuro_morphometric_atlas_pipeline and extract_nifti_atlas_info); and the tasks
\* that remain stay chained: the registered ones among check_free_space,
\* copy_dicom_to_local, prepare_pipeline, dicom_organizer_pipeline,
\* extract_dicom_info, dicom_to_nifti_pipeline each directly below the one before,
\* likewise dicom_to_nifti_pipeline, mpm_maps_pipeline,
\* neuro_morphometric_atlas_pipeline, with cleanup_local_dicom and extract_nifti_info
\* below dicom_to_nifti_pipeline and each optional extraction below its pipeline.
C15_GraphShape ==
    (script = "param" /\ pc = "done") =>
        /\ dag = UnconditionalTasks \cup FlagTasks(flags)
        /\ \A t \in TaskIds : upstream_task_ids[t] \subseteq dag
        /\ \A t \in TaskIds \ dag : upstream_task_ids[t] = {}
        /\ \A t \in dag : t \notin WaitsFor(t)
        /\ {t \in dag : upstream_task_ids[t] = {}} = {"check_free_space"}
        /\ \A t \in dag \ {"check_free_space"} : "check_free_space" \in WaitsFor(t)
        /\ Chained(SelectSeq(<<"check_free_space", "copy_dicom_to_local",
                               "prepare_pipeline", "dicom_organizer_pipeline",
                               "extract_dicom_info", "dicom_to_nifti_pipeline">>,
                             Registered))
        /\ Chained(SelectSeq(<<"dicom_to_nifti_pipeline", "mpm_maps_pipeline",
                               "neuro_morphometric_atlas_pipeline">>, Registered))
        /\ Chained(<<"dicom_to_nifti_pipeline", "cleanup_local_dicom">>)
        /\ Chained(<<"dicom_to_nifti_pipeline", "extract_nifti_info">>)
        /\ Chained(SelectSeq(<<"mpm_maps_pipeline", "extract_nifti_mpm_info">>,
                             Registered))
        /\ Chained(SelectSeq(<<"neuro_morphometric_atlas_pipeline",
                               "extract_nifti_atlas_info">>, Registered))

\* the DAG defined with the four flags off: the seven unconditional tasks
C15_Witness ==
    /\ script = "param" /\ pc = "done"
    /\ FlagTasks(flags) = {}
    /\ Cardinality(dag) = 7

----------------------------------------------------------------------------
(* Runs whose attempts all succeed, under a fair engine *)

\* the engine when every attempt of every task succeeds
EngineLive ==
    \/ \E r \in RunIds : TriggerDagRun(r)
    \/ \E r \in RunIds, t \in TaskIds : Start(r, t)
    \/ \E r \in RunIds, t \in TaskIds : Succeed(r, t)
    \/ \E r \in RunIds : CopyToLocalCmd(r, {0}, {TRUE})
    \/ \E r \in RunIds : CopyDicomToLocalCmd(r, {TRUE})
    \/ \E r \in RunIds : CleanupLocalDicomCmd(r, {TRUE})

NextLive == Build \/ EngineLive

\* the engine eventually schedules every task instance whose upstream tasks have all
\* succeeded, and every attempt eventually ends
Fairness ==
    /\ \A r \in RunIds, t \in TaskIds : WF_vars(Start(r, t))
    /\ \A r \in RunIds, t \in TaskIds : WF_vars(Succeed(r, t))
    /\ \A r \in RunIds : WF_vars(CopyToLocalCmd(r, {0}, {TRUE}))
    /\ \A r \in RunIds : WF_vars(CopyDicomToLocalCmd(r, {TRUE}))
    /\ \A r \in RunIds : WF_vars(CleanupLocalDicomCmd(r, {TRUE}))

SpecLive == Init /\ [][NextLive]_vars /\ Fairness

C17_RemovesOnlyCopied ==
    script = "param" => \A r \in dag_runs : removed[r] \subseteq written[r]
====
